---- MODULE Spec2Model ----
(***************************************************************************)
(* Model of streamlit_app.py: a Streamlit chat front-end that keeps its    *)
(* conversations in db.json.  Every user interaction re-runs the whole     *)
(* script: load_db(), sidebar buttons, the "Manage Chat" dialog, the       *)
(* active-chat resolution, the rendering and the chat_input handler.  One  *)
(* action models one script run for one widget event, the st.rerun() it    *)
(* ends with included.  The chat_input handler is split at its two calls   *)
(* of the completion service (the streamed reply, the title), which are    *)
(* the only places where the script waits for the outside world.           *)
(***************************************************************************)
EXTENDS Integers, Sequences, FiniteSets, TLC

VARIABLES
    file,       \* content of DB_FILE
    active,     \* st.session_state.active_chat_id
    editing,    \* st.session_state.editing_chat_id
    now,        \* time.time(), as a counter
    pc,         \* position of the chat_input handler: idle, streaming, title
    db,         \* db['chats'] of the script run that is in the handler
    cur,        \* local active_chat_id of that script run
    last,       \* history: what the last step did
    attempts,   \* history: chat id -> number of generate_title calls
    exchanges   \* history: chat id -> number of assistant replies appended

vars == <<file, active, editing, now, pc, db, cur, last, attempts, exchanges>>

----------------------------------------------------------------------------
(* Bounds *)

MaxTime == 2            \* chat ids (creation times) are 1..MaxTime
MaxExchanges == 2       \* exchanges started per chat

(* Program constants and input alphabets *)

DEFAULT_TITLE == "New Chat"
None == 0               \* Python None for a chat id
Unset == -1             \* key "active_chat_id" not in st.session_state
Prompts == {"p1"}
Replies == {"r1"}
GeneratedTitles == {"T1", DEFAULT_TITLE}
TitleInputs == {"", "T1", DEFAULT_TITLE}

NoChats == <<>>

(* The shapes the content of DB_FILE can have. *)
MalformedKinds ==
    {"missing", "empty", "garbage", "number", "null", "bool", "string",
     "string_chats", "array", "array_chats", "object_nochats",
     "object_chats_notdict"}

MissingFile == [kind |-> "missing", chats |-> NoChats]

----------------------------------------------------------------------------
(* Database functions *)

\* type of the value json.load returns for a parseable file
PyType(kind) ==
    CASE kind = "number" -> "int"
      [] kind = "null" -> "NoneType"
      [] kind = "bool" -> "bool"
      [] kind \in {"string", "string_chats"} -> "str"
      [] kind \in {"array", "array_chats"} -> "list"
      [] OTHER -> "dict"

\* 'chats' in data, for the types that support the in operator
ContainsChats(kind) ==
    kind \in {"string_chats", "array_chats", "object_chats_notdict", "store"}

load_db(f) ==
    IF f.kind \in {"missing", "empty"}
    THEN [exc |-> "", chats |-> NoChats]
    ELSE IF f.kind = "garbage"
    THEN [exc |-> "", chats |-> NoChats]            \* JSONDecodeError, caught
    ELSE IF PyType(f.kind) \in {"int", "NoneType", "bool"}
    THEN [exc |-> "TypeError", chats |-> NoChats]   \* 'chats' not in data
    ELSE IF ~ContainsChats(f.kind)
    THEN [exc |-> "", chats |-> NoChats]
    ELSE IF PyType(f.kind) \in {"str", "list"}
    THEN [exc |-> "AttributeError", chats |-> NoChats]  \* data.get
    ELSE IF f.kind # "store"
    THEN [exc |-> "", chats |-> NoChats]            \* not isinstance(.., dict)
    ELSE [exc |-> "", chats |-> f.chats]

save_db(chats) == [kind |-> "store", chats |-> chats]

\* the chats a reader of the persisted document sees
Persisted(f) == load_db(f).chats

----------------------------------------------------------------------------
(* Helpers of the script *)

Message(role, content) == [role |-> role, content |-> content]

NewRecord(t) == [title |-> DEFAULT_TITLE, messages |-> <<>>, created_at |-> t]

Remove(chats, id) == [c \in (DOMAIN chats) \ {id} |-> chats[c]]

\* sorted_chat_ids[0] if sorted_chat_ids else None
FirstByRecency(chats) ==
    IF DOMAIN chats = {} THEN None
    ELSE CHOOSE c \in DOMAIN chats :
            \A d \in DOMAIN chats : chats[d].created_at <= chats[c].created_at

\* if "active_chat_id" not in st.session_state: ...
ResolveActive(a, chats) == IF a = Unset THEN FirstByRecency(chats) ELSE a

\* edit_chat_dialog's guard: a dialog for an id that is gone closes itself
ResolveEditing(e, chats) == IF e # None /\ e \notin DOMAIN chats THEN None ELSE e

AppendUser(msgs, p) == Append(msgs, Message("user", p))

AppendReply_AsUser(msgs, r) == Append(msgs, Message("user", r))

AppendReply(msgs, r) == Append(msgs, Message("assistant", r))

TitleCondition_AnyLength(rec) == rec.title = DEFAULT_TITLE

TitleCondition(rec) == rec.title = DEFAULT_TITLE /\ Len(rec.messages) = 2

ActiveAfterDelete_Keep(a, id) == a

ActiveAfterDelete(a, id) == IF a = id THEN None ELSE a

Bump(f, id) == IF id \in DOMAIN f THEN [f EXCEPT ![id] = @ + 1] ELSE f @@ (id :> 1)

\* history record of a script run that starts in the current state
Event(op, id, text, exc, writes, mem) ==
    [op |-> op, id |-> id, text |-> text, exc |-> exc, writes |-> writes,
     mem |-> mem, pre |-> file, preActive |-> active,
     retry |-> (last.op = "stream_fail")]

\* history record of a later step of the same script run
Step(op, exc, writes, mem) ==
    [last EXCEPT !.op = op, !.exc = exc, !.writes = writes, !.mem = mem]

----------------------------------------------------------------------------
Init ==
    /\ file = MissingFile
    /\ active = Unset
    /\ editing = None
    /\ now = 1
    /\ pc = "idle"
    /\ db = NoChats
    /\ cur = None
    /\ last = [op |-> "init", id |-> None, text |-> "", exc |-> "",
               writes |-> 0, mem |-> NoChats, pre |-> MissingFile,
               preActive |-> Unset, retry |-> FALSE]
    /\ attempts = <<>>
    /\ exchanges = <<>>

\* a script run that dies in load_db (line 81) changes nothing
Crash(op, id, text, exc) ==
    /\ last' = Event(op, id, text, exc, 0, NoChats)
    /\ UNCHANGED <<file, active, editing, now, pc, db, cur, attempts, exchanges>>

\* a script run without a widget event (page load, or the run after st.rerun())
PageLoad ==
    /\ pc = "idle"
    /\ LET L == load_db(file) IN
       IF L.exc # "" THEN Crash("load", None, "", L.exc)
       ELSE /\ editing' = ResolveEditing(editing, L.chats)
            /\ active' = ResolveActive(active, L.chats)
            /\ last' = Event("load", None, "", "", 0, NoChats)
            /\ UNCHANGED <<file, now, pc, db, cur, attempts, exchanges>>

NewChat_Eager ==
    /\ pc = "idle"
    /\ LET L == load_db(file) IN
       IF L.exc # "" THEN Crash("new", None, "", L.exc)
       ELSE /\ active' = None
            /\ editing' = None
            /\ file' = save_db(L.chats @@ (now :> NewRecord(now)))
            /\ last' = Event("new", None, "", "", 1, NoChats)
            /\ UNCHANGED <<now, pc, db, cur, attempts, exchanges>>

\* "New Chat" button, lines 123-126, and the rerun
NewChat ==
    /\ pc = "idle"
    /\ LET L == load_db(file) IN
       IF L.exc # "" THEN Crash("new", None, "", L.exc)
       ELSE /\ active' = None
            /\ editing' = None
            /\ last' = Event("new", None, "", "", 0, NoChats)
            /\ UNCHANGED <<file, now, pc, db, cur, attempts, exchanges>>

\* chat title button select_<id>, lines 144-153, and the rerun
SelectChat ==
    /\ pc = "idle"
    /\ LET L == load_db(file) IN
       /\ L.exc = ""
       /\ \E id \in DOMAIN L.chats :
            /\ active' = id
            /\ editing' = None
            /\ last' = Event("select", id, "", "", 0, NoChats)
       /\ UNCHANGED <<file, now, pc, db, cur, attempts, exchanges>>

\* options button options_<id>, lines 156-158, and the rerun
OpenOptions ==
    /\ pc = "idle"
    /\ LET L == load_db(file) IN
       /\ L.exc = ""
       /\ \E id \in DOMAIN L.chats :
            /\ editing' = id
            /\ active' = ResolveActive(active, L.chats)
            /\ last' = Event("options", id, "", "", 0, NoChats)
       /\ UNCHANGED <<file, now, pc, db, cur, attempts, exchanges>>

\* "Save title" in the dialog, lines 89-108, and the rerun
SaveTitle ==
    /\ pc = "idle"
    /\ editing # None
    /\ \E t \in TitleInputs :
        LET L == load_db(file) IN
        IF L.exc # "" THEN Crash("rename", editing, t, L.exc)
        ELSE IF editing \notin DOMAIN L.chats
        THEN /\ editing' = None                              \* lines 91-94
             /\ active' = ResolveActive(active, L.chats)
             /\ last' = Event("rename", editing, t, "", 0, L.chats)
             /\ UNCHANGED <<file, now, pc, db, cur, attempts, exchanges>>
        ELSE LET d == [L.chats EXCEPT ![editing].title = t] IN
             /\ file' = save_db(d)
             /\ editing' = None
             /\ active' = ResolveActive(active, d)
             /\ last' = Event("rename", editing, t, "", 1, d)
             /\ UNCHANGED <<now, pc, db, cur, attempts, exchanges>>

\* "Delete chat" in the dialog, lines 89-96 and 110-117, and the rerun
DeleteChat ==
    /\ pc = "idle"
    /\ editing # None
    /\ LET L == load_db(file) IN
       IF L.exc # "" THEN Crash("delete", editing, "", L.exc)
       ELSE IF editing \notin DOMAIN L.chats
       THEN /\ editing' = None                               \* lines 91-94
            /\ active' = ResolveActive(active, L.chats)
            /\ last' = Event("delete", editing, "", "", 0, L.chats)
            /\ UNCHANGED <<file, now, pc, db, cur, attempts, exchanges>>
       ELSE LET d == Remove(L.chats, editing) IN
            /\ file' = save_db(d)
            /\ editing' = None
            /\ active' = ResolveActive(ActiveAfterDelete(active, editing), d)
            /\ last' = Event("delete", editing, "", "", 1, d)
            /\ UNCHANGED <<now, pc, db, cur, attempts, exchanges>>

\* chat_input submit, lines 161-162 and 171-197, up to the completion call
Submit ==
    /\ pc = "idle"
    /\ \E p \in Prompts :
        LET L == load_db(file) IN
        IF L.exc # "" THEN Crash("submit", None, p, L.exc)
        ELSE IF editing # None /\ editing \notin DOMAIN L.chats
        THEN \* the dialog reruns the script before it reaches chat_input
             /\ editing' = None
             /\ active' = ResolveActive(active, L.chats)
             /\ last' = Event("submit_dropped", None, p, "", 0, L.chats)
             /\ UNCHANGED <<file, now, pc, db, cur, attempts, exchanges>>
        ELSE LET a == ResolveActive(active, L.chats)
                 id == IF a = None THEN now ELSE a
                 d == IF a = None THEN L.chats @@ (now :> NewRecord(now))
                      ELSE L.chats
             IN
             /\ a = None => now <= MaxTime
             /\ now' = IF a = None THEN now + 1 ELSE now
             /\ active' = id
             /\ IF id \notin DOMAIN d
                THEN \* db['chats'][active_chat_id] on line 194
                     /\ last' = Event("submit", id, p, "KeyError", 0, d)
                     /\ UNCHANGED <<file, editing, pc, db, cur, attempts, exchanges>>
                ELSE /\ Len(d[id].messages) < 2 * MaxExchanges
                     /\ db' = [d EXCEPT ![id].messages = AppendUser(@, p)]
                     /\ cur' = id
                     /\ pc' = "streaming"
                     /\ last' = Event("submit", id, p, "", 0, db')
                     /\ UNCHANGED <<file, editing, attempts, exchanges>>

\* the stream is consumed; lines 205-209 and, without a title pass, 215
StreamOk ==
    /\ pc = "streaming"
    /\ \E r \in Replies :
        LET d == [db EXCEPT ![cur].messages = AppendReply(@, r)] IN
        /\ exchanges' = Bump(exchanges, cur)
        /\ IF TitleCondition(d[cur])
           THEN /\ pc' = "title"                   \* generate_title is called
                /\ db' = d
                /\ attempts' = Bump(attempts, cur)
                /\ last' = Step("reply", "", 0, d)
                /\ UNCHANGED <<file, active, editing, now, cur>>
           ELSE /\ file' = save_db(d)
                /\ pc' = "idle"
                /\ db' = NoChats
                /\ cur' = None
                /\ last' = Step("reply", "", 1, d)
                /\ UNCHANGED <<active, editing, now, attempts>>

StreamFail_Saves ==
    /\ pc = "streaming"
    /\ pc' = "idle"
    /\ db' = NoChats
    /\ cur' = None
    /\ file' = save_db(db)
    /\ last' = Step("stream_fail", "GatewayRequestError", 1, db)
    /\ UNCHANGED <<active, editing, now, attempts, exchanges>>

\* the completion call on lines 200-205 raises; the script run ends there
StreamFail ==
    /\ pc = "streaming"
    /\ pc' = "idle"
    /\ db' = NoChats
    /\ cur' = None
    /\ last' = Step("stream_fail", "GatewayRequestError", 0, db)
    /\ UNCHANGED <<file, active, editing, now, attempts, exchanges>>

\* generate_title returns; lines 211-213 and the rerun
TitleDone ==
    /\ pc = "title"
    /\ \E t \in GeneratedTitles :
        LET d == [db EXCEPT ![cur].title = t] IN
        /\ file' = save_db(d)
        /\ editing' = ResolveEditing(editing, d)
        /\ pc' = "idle"
        /\ db' = NoChats
        /\ cur' = None
        /\ last' = Step("title", "", 1, d)
        /\ UNCHANGED <<active, now, attempts, exchanges>>

\* DB_FILE is removed, truncated or overwritten from outside the program
ExternalWrite ==
    /\ pc = "idle"
    /\ \E k \in MalformedKinds :
        /\ file.kind # k
        /\ file' = [kind |-> k, chats |-> NoChats]
        /\ last' = Event("external", None, "", "", 0, NoChats)
    /\ UNCHANGED <<active, editing, now, pc, db, cur, attempts, exchanges>>

Next ==
    \/ PageLoad
    \/ NewChat
    \/ SelectChat
    \/ OpenOptions
    \/ SaveTitle
    \/ DeleteChat
    \/ Submit
    \/ StreamOk
    \/ StreamFail
    \/ TitleDone
    \/ ExternalWrite

Spec == Init /\ [][Next]_vars

----------------------------------------------------------------------------
TypeOK ==
    /\ pc \in {"idle", "streaming", "title"}
    /\ active \in {Unset, None} \cup (1..MaxTime)
    /\ editing \in {None} \cup (1..MaxTime)
    /\ now \in 1..(MaxTime + 1)

----------------------------------------------------------------------------
(* Properties *)

MessagesOf(chats, id) == IF id \in DOMAIN chats THEN chats[id].messages ELSE <<>>

Alternating(msgs) ==
    /\ Len(msgs) % 2 = 0
    /\ \A i \in 1..Len(msgs) :
         msgs[i].role = (IF i % 2 = 1 THEN "user" ELSE "assistant")

\* C1: when the completion call fails while streaming, the chat's messages
\* are the messages from before the submit plus exactly the user message,
\* and the persisted document is the one from before the submit.
C1_FailedStreamKeepsUserOnly ==
    last.op = "stream_fail" =>
        /\ last.exc = "GatewayRequestError"
        /\ last.id \in DOMAIN last.mem
        /\ last.mem[last.id].messages =
              MessagesOf(Persisted(last.pre), last.id) \o <<Message("user", last.text)>>
        /\ file = last.pre
        /\ last.writes = 0

C1_Witness ==
    /\ last.op = "stream_fail"
    /\ last.id \in DOMAIN Persisted(last.pre)
    /\ Len(Persisted(last.pre)[last.id].messages) >= 2

\* C2: after a failed reply attempt, a submit in the next interaction cycle
\* does not fail, and when its reply completes the persisted store holds a
\* record for the active chat that ends with the resubmitted user message
\* followed by the assistant reply.
C2_RetryAfterFailure ==
    /\ (last.op = "submit" /\ last.retry) => last.exc = ""
    /\ (last.retry /\ last.op \in {"reply", "title"} /\ pc = "idle") =>
          /\ active \in DOMAIN Persisted(file)
          /\ LET m == Persisted(file)[active].messages IN
             /\ Len(m) >= 2
             /\ m[Len(m) - 1] = Message("user", last.text)
             /\ m[Len(m)].role = "assistant"

\* C3: a submit while the active pointer names an id that is not a key of
\* the loaded store does not fail and behaves as a submit with no active
\* chat: a fresh record is created and receives the user message.
C3_DanglingPointerFallsBack ==
    (/\ last.op = "submit"
     /\ load_db(last.pre).exc = ""
     /\ last.preActive \notin {None, Unset}
     /\ last.preActive \notin DOMAIN Persisted(last.pre)) =>
        /\ last.exc = ""
        /\ last.id # last.preActive
        /\ last.id \in DOMAIN last.mem
        /\ last.mem[last.id].messages = <<Message("user", last.text)>>

\* C4: load never raises and returns the empty store for every backing-file
\* state that is not a well-formed store.
C4_LoadNeverRaises ==
    file.kind # "store" => load_db(file) = [exc |-> "", chats |-> NoChats]

\* C5: renaming a chat to the empty title or to its current title is a
\* no-op: the persisted document is unchanged and no write occurs.
C5_RenameNoOp ==
    (/\ last.op = "rename"
     /\ last.exc = ""
     /\ last.id \in DOMAIN Persisted(last.pre)
     /\ \/ last.text = ""
        \/ last.text = Persisted(last.pre)[last.id].title) =>
        /\ file = last.pre
        /\ last.writes = 0

\* C6: after a reply append, title generation is attempted if and only if
\* the chat holds exactly two messages and the default title; so it is
\* attempted at most once per chat and never on a second or later exchange.
C6_TitleOnlyOnFirstExchange ==
    /\ \A id \in DOMAIN attempts : attempts[id] <= 1
    /\ last.op = "reply" =>
          ((pc = "title") <=>
              /\ Len(last.mem[last.id].messages) = 2
              /\ last.mem[last.id].title = DEFAULT_TITLE)
    /\ pc = "title" => exchanges[cur] = 1
    /\ (last.op = "reply" /\ exchanges[last.id] >= 2) => pc # "title"

C6_Witness ==
    /\ last.op = "reply"
    /\ exchanges[last.id] = 2
    /\ last.mem[last.id].title = DEFAULT_TITLE
    /\ attempts[last.id] = 1
    /\ pc = "idle"

\* C7 as stated: after deleteChat(id) the persisted store is the prior
\* store without key id (unchanged and without error when id does not
\* exist), and the active pointer is none if it referenced id and otherwise
\* unchanged.
C7_DeleteClearsPointerForAnyId ==
    (last.op = "delete" /\ load_db(last.pre).exc = "") =>
        /\ last.exc = ""
        /\ Persisted(file) = Remove(Persisted(last.pre), last.id)
        /\ active = (IF last.preActive = last.id THEN None ELSE last.preActive)
        /\ last.id \notin DOMAIN Persisted(last.pre) =>
              (file = last.pre /\ last.writes = 0)

\* C7 amended: after deleteChat(id) the persisted store is the prior store
\* without key id (unchanged and without error when id does not exist), and
\* the active pointer is none if id existed and the pointer referenced it,
\* and otherwise unchanged.
C7_DeleteRemovesOnlyThatChat ==
    (last.op = "delete" /\ load_db(last.pre).exc = "") =>
        /\ last.exc = ""
        /\ Persisted(file) = Remove(Persisted(last.pre), last.id)
        /\ active = (IF /\ last.preActive = last.id
                        /\ last.id \in DOMAIN Persisted(last.pre)
                     THEN None ELSE last.preActive)
        /\ last.id \notin DOMAIN Persisted(last.pre) =>
              (file = last.pre /\ last.writes = 0)

C7_Witness ==
    /\ last.op = "delete"
    /\ last.id \in DOMAIN Persisted(last.pre)
    /\ last.preActive = last.id
    /\ Cardinality(DOMAIN Persisted(last.pre)) >= 2

\* C8: newChat only clears the active pointer and writes nothing, selectChat
\* writes nothing, and a record comes into existence only through a message
\* submitted while no chat is active.
C8_NewChatCreatesNoRecord ==
    /\ (last.op = "new" /\ last.exc = "") => active = None
    /\ last.op \in {"new", "select"} => (file = last.pre /\ last.writes = 0)
    /\ \A id \in DOMAIN Persisted(file) \ DOMAIN Persisted(last.pre) :
          /\ last.op \in {"reply", "title"}
          /\ id = last.id
          /\ ResolveActive(last.preActive, Persisted(last.pre)) = None

C8_Witness ==
    /\ last.op = "new"
    /\ last.exc = ""
    /\ last.preActive \in DOMAIN Persisted(last.pre)
    /\ active = None

\* C9: the store is saved when the reply is appended, before title
\* generation begins: while the title is pending the persisted store already
\* holds the user message and the assistant reply.
C9_SavedBeforeTitle ==
    pc = "title" =>
        /\ cur \in DOMAIN Persisted(file)
        /\ Persisted(file)[cur].messages = db[cur].messages

\* C10: every save leaves a surviving record's messages unchanged or appends
\* one user message followed by one assistant message; every persisted
\* record holds an even number of messages alternating user, assistant.
C10_MessagesAlternate ==
    /\ \A id \in DOMAIN Persisted(file) : Alternating(Persisted(file)[id].messages)
    /\ \A id \in DOMAIN Persisted(file) \cap DOMAIN Persisted(last.pre) :
          LET old == Persisted(last.pre)[id].messages
              new == Persisted(file)[id].messages
          IN \/ new = old
             \/ \E p \in Prompts, r \in Replies :
                   new = old \o <<Message("user", p), Message("assistant", r)>>

C10_Witness ==
    /\ last.op = "reply"
    /\ last.writes = 1
    /\ last.id \in DOMAIN Persisted(last.pre)
    /\ Len(Persisted(file)[last.id].messages) = 4
    /\ Cardinality(DOMAIN Persisted(file)) >= 2
====
